---- MODULE Spec2Model ----
(***************************************************************************)
(* Model of media-scripts/consolidate_files.py and media-scripts/           *)
(* split_dir.py: the safe-move primitive move_file, the name resolver       *)
(* get_unique_name, the first-fit-decreasing packing loop of split, and the *)
(* scan -> plan -> execute sequence of both main() functions.               *)
(*                                                                          *)
(* A path is a sequence of components; a component (a file or directory     *)
(* name) is a sequence of one-character strings, so that Path.stem,         *)
(* Path.suffix, str(counter) and int(name) are computed as the code does.   *)
(* A file's content is a sequence of bytes; st_size is its length.          *)
(***************************************************************************)
EXTENDS Integers, Sequences, FiniteSets, TLC

VARIABLES
    files,          \* the regular files on disk: path -> content
    dirs,           \* the directories on disk: set of paths
    tool,           \* which program runs: "move", "consolidate", "split" or "resolve"
    args,           \* the command line arguments of the run
    pc,             \* position of main()
    claimed_names,  \* consolidate_files.py: the module-level set claimed_names
    src_idx,        \* consolidate main: index of the source directory being scanned
    pending,        \* consolidate main: files of the current source directory not yet planned
    operations,     \* the planned moves, in planning order
    completed,      \* main: the counter completed
    reported,       \* the N of "Stopping. N/total", or -1 when none was printed
    exit_code,      \* process exit status, or -1 while running
    max_size,       \* split main: parse_size(split_size)
    start_num,      \* split main: find_max_numbered_dir(directory)
    flist,          \* split main: the list files after the sort
    pack_idx,       \* split main: position of the packing loop in flist
    batches,        \* split main: batches
    batch_sizes,    \* split main: batch_sizes
    created_dirs,   \* split main: created_dirs
    mv,             \* the frame of the running move_file call
    files0,         \* history: files when the run started
    dirs0,          \* history: dirs when the run started
    log,            \* history: one record per finished move_file call
    scanned,        \* history: the directories the run has listed with iterdir()
    prior,          \* history: one record per earlier run on this filesystem
    stale,          \* history: the scanned files another process changed or removed
    resolve         \* the frame of a get_unique_name call made on its own

vars == <<files, dirs, tool, args, pc, claimed_names, src_idx, pending, operations,
          completed, reported, exit_code, max_size, start_num, flist, pack_idx, batches,
          batch_sizes, created_dirs, mv, files0, dirs0, log, scanned, prior, stale, resolve>>

fsVars    == <<files, dirs>>
startVars == <<files0, dirs0, prior, stale, resolve>>
histVars  == <<files0, dirs0, prior, stale, scanned, resolve>>
planVars  == <<claimed_names, src_idx, pending, operations>>
packVars  == <<max_size, start_num, flist, pack_idx, batches, batch_sizes>>
argVars   == <<tool, args>>

-----------------------------------------------------------------------------
(* Bounds of the model *)

\* largest file size (bytes) of a file present when a run starts
MaxSize == 3

-----------------------------------------------------------------------------
(* Names and paths *)

Max(x, y) == IF x >= y THEN x ELSE y

Join(dir, name) == Append(dir, name)
Name(p)         == p[Len(p)]
Parent(p)       == SubSeq(p, 1, Len(p) - 1)

\* str.rfind('.') on a name, 1-based; 0 when there is no dot
RFindDot(name) ==
    LET hits == {i \in 1..Len(name) : name[i] = "."}
    IN  IF hits = {} THEN 0 ELSE CHOOSE i \in hits : \A j \in hits : j <= i

\* pathlib: a leading dot or a trailing dot starts no suffix
HasSuffix(name) == 1 < RFindDot(name) /\ RFindDot(name) < Len(name)

Stem(name)   == IF HasSuffix(name) THEN SubSeq(name, 1, RFindDot(name) - 1) ELSE name
Suffix(name) == IF HasSuffix(name) THEN SubSeq(name, RFindDot(name), Len(name)) ELSE <<>>

DigitChars == <<"0", "1", "2", "3", "4", "5", "6", "7", "8", "9">>

\* str(n) for n >= 0
RECURSIVE Str(_)
Str(n) == IF n < 10 THEN <<DigitChars[n + 1]>>
          ELSE Str(n \div 10) \o <<DigitChars[(n % 10) + 1]>>

IsDigit(ch) == \E d \in 1..10 : DigitChars[d] = ch
DigitVal(ch) == (CHOOSE d \in 1..10 : DigitChars[d] = ch) - 1

\* re.compile(r"^\d+$").match(name)
AllDigits(name) == Len(name) > 0 /\ \A i \in 1..Len(name) : IsDigit(name[i])

\* int(name) for a name of decimal digits
RECURSIVE ToInt(_)
ToInt(name) == IF Len(name) = 0 THEN 0
               ELSE 10 * ToInt(SubSeq(name, 1, Len(name) - 1)) + DigitVal(name[Len(name)])

-----------------------------------------------------------------------------
(* Filesystem *)

IsFile(p) == p \in DOMAIN files
IsDir(p)  == p \in dirs
Exists(p) == IsFile(p) \/ IsDir(p)

\* the entries of a directory: iterdir()
Children(d) == {p \in (DOMAIN files) \cup dirs : Len(p) = Len(d) + 1 /\ Parent(p) = d}

StSize(content) == Len(content)

\* hashlib.sha256 over the bytes, abstracted to an injective digest of the content
RECURSIVE Sha256(_)
Sha256(content) ==
    IF Len(content) = 0 THEN 1
    ELSE 16 * Sha256(SubSeq(content, 1, Len(content) - 1)) + content[Len(content)] + 1

Put(fs, p, content) == [q \in (DOMAIN fs) \cup {p} |-> IF q = p THEN content ELSE fs[q]]
Remove(fs, p)       == [q \in (DOMAIN fs) \ {p} |-> fs[q]]

\* a file's bytes: every byte is the file's tag, so content tells files apart
Blob(tag, size) == [i \in 1..size |-> tag]

\* what a copy can leave at the destination when it goes wrong
ShortCopies(content) == {SubSeq(content, 1, k) : k \in 0..(Len(content) - 1)}
Corrupted(content)   == IF Len(content) = 0 THEN {} ELSE {[content EXCEPT ![1] = 0]}

-----------------------------------------------------------------------------
(* move_file.  consolidate_files.py:99-130 and split_dir.py:75-93 are the    *)
(* same statements; the one of split takes no verify and never checksums,   *)
(* which is the frame with verify = FALSE.                                  *)

NoFrame == [pc |-> "idle"]

Frame(src, dest, verify) ==
    [pc |-> "begin", src |-> src, dest |-> dest, verify |-> verify,
     src_checksum |-> 0, error |-> "",
     \* history: the files at the call, the way taken, what copy2 left at dest
     before |-> files, via |-> "", copy_returned |-> FALSE, copied |-> <<>>]

\* split_dir.py: move_file(src, dest)
SplitFrame(src, dest) == Frame(src, dest, FALSE)

Raise(kind)  == mv' = [mv EXCEPT !.pc = "raised", !.error = kind]
Return       == mv' = [mv EXCEPT !.pc = "returned"]
Goto(label)  == mv' = [mv EXCEPT !.pc = label]

moveFrame == <<dirs, tool, args, pc, claimed_names, src_idx, pending, operations,
               completed, reported, exit_code, max_size, start_num, flist, pack_idx, batches,
               batch_sizes, created_dirs, files0, dirs0, log, scanned, prior, stale, resolve>>

\* DestExists with the no-clobber test of line 101 left out
DestExists_Never(dest) == FALSE

\* line 101: `if dest.exists()`
DestExists(dest) == Exists(dest)

\* lines 101-106: the no-clobber guard, then the source checksum under verify
MoveBegin ==
    /\ mv.pc = "begin"
    /\ IF DestExists(mv.dest)
       THEN Raise("FileExistsError")
       ELSE IF mv.verify
            THEN IF IsFile(mv.src)
                 THEN mv' = [mv EXCEPT !.pc = "rename",
                                       !.src_checksum = Sha256(files[mv.src])]
                 ELSE Raise("FileNotFoundError")
            ELSE Goto("rename")
    /\ UNCHANGED <<files, moveFrame>>

\* src.rename(dest) succeeded
RenameOk ==
    /\ mv.pc = "rename"
    /\ IsFile(mv.src)
    /\ IsDir(Parent(mv.dest))
    /\ files' = Put(Remove(files, mv.src), mv.dest, files[mv.src])
    /\ mv' = [mv EXCEPT !.pc = "returned", !.via = "rename"]
    /\ UNCHANGED moveFrame

\* src.rename(dest) raised OSError with errno EXDEV
RenameCrossDevice ==
    /\ mv.pc = "rename"
    /\ IsFile(mv.src)
    /\ IsDir(Parent(mv.dest))
    /\ mv' = [mv EXCEPT !.pc = "copy", !.via = "copy"]
    /\ UNCHANGED <<files, moveFrame>>

\* src.rename(dest) raised any other OSError (always so when src is missing)
RenameError ==
    /\ mv.pc = "rename"
    /\ Raise("OSError")
    /\ UNCHANGED <<files, moveFrame>>

\* shutil.copy2(src, dest) returned: dest holds the bytes, fewer bytes, or damaged bytes
CopyDone ==
    /\ mv.pc = "copy"
    /\ \E content \in {files[mv.src]} \cup ShortCopies(files[mv.src])
                      \cup Corrupted(files[mv.src]) :
           /\ files' = Put(files, mv.dest, content)
           /\ mv' = [mv EXCEPT !.pc = "size", !.copy_returned = TRUE, !.copied = content]
    /\ UNCHANGED moveFrame

\* shutil.copy2(src, dest) raised after creating dest (disk full, I/O error)
CopyError ==
    /\ mv.pc = "copy"
    /\ \E content \in ShortCopies(files[mv.src]) \cup {files[mv.src]} :
           files' = Put(files, mv.dest, content)
    /\ Raise("OSError")
    /\ UNCHANGED moveFrame

\* SizesDiffer with the comparison of line 117 left out
SizesDiffer_Never(src, dest) == FALSE

\* line 117: `src.stat().st_size != dest.stat().st_size`
SizesDiffer(src, dest) == StSize(files[src]) # StSize(files[dest])

\* MoveCheckSize without the dest.unlink() of line 118
MoveCheckSize_KeepsDest ==
    /\ mv.pc = "size"
    /\ IF StSize(files[mv.src]) # StSize(files[mv.dest])
       THEN Raise("SizeMismatch")
       ELSE Goto(IF mv.verify THEN "verify" ELSE "unlink")
    /\ UNCHANGED <<files, moveFrame>>

\* lines 117-119: compare st_size, unlink a short copy
MoveCheckSize ==
    /\ mv.pc = "size"
    /\ IF SizesDiffer(mv.src, mv.dest)
       THEN /\ files' = Remove(files, mv.dest)
            /\ Raise("SizeMismatch")
       ELSE /\ UNCHANGED files
            /\ Goto(IF mv.verify THEN "verify" ELSE "unlink")
    /\ UNCHANGED moveFrame

\* MoveVerify without the comparison of line 123
MoveVerify_Passes ==
    /\ mv.pc = "verify"
    /\ Goto("unlink")
    /\ UNCHANGED <<files, moveFrame>>

\* lines 121-128: under verify, compare the checksums, unlink a damaged copy
MoveVerify ==
    /\ mv.pc = "verify"
    /\ IF mv.src_checksum # Sha256(files[mv.dest])
       THEN /\ files' = Remove(files, mv.dest)
            /\ Raise("ChecksumMismatch")
       ELSE /\ UNCHANGED files
            /\ Goto("unlink")
    /\ UNCHANGED moveFrame

\* UnlinkOk without the src.unlink() of line 130
UnlinkOk_KeepsSrc ==
    /\ mv.pc = "unlink"
    /\ Return
    /\ UNCHANGED <<files, moveFrame>>

\* src.unlink() succeeded
UnlinkOk ==
    /\ mv.pc = "unlink"
    /\ files' = Remove(files, mv.src)
    /\ Return
    /\ UNCHANGED moveFrame

\* src.unlink() raised OSError (the source directory is not writable)
UnlinkError ==
    /\ mv.pc = "unlink"
    /\ Raise("OSError")
    /\ UNCHANGED <<files, moveFrame>>

MoveStep ==
    \/ MoveBegin
    \/ RenameOk
    \/ RenameCrossDevice
    \/ RenameError
    \/ CopyDone
    \/ CopyError
    \/ MoveCheckSize
    \/ MoveVerify
    \/ UnlinkOk
    \/ UnlinkError

\* the record the history keeps of a finished call
LogEntry(ok) ==
    [src |-> mv.src, dest |-> mv.dest, ok |-> ok, error |-> mv.error, via |-> mv.via,
     placed |-> IF ok THEN files[mv.dest] ELSE <<>>]

-----------------------------------------------------------------------------
(* One call of move_file on its own *)

DirA == <<<<"A">>>>
DirB == <<<<"B">>>>
NameF == <<"f">>
NameG == <<"g">>

\* the filesystems a single call is tried on: src present (of any size) or missing,
\* dest absent, a file, or a directory
MoveInputs ==
    { [files |-> sf @@ df, dirs |-> {DirA, DirB} \cup dd] :
        sf \in {<<>>} \cup {Join(DirA, NameF) :> Blob(1, n) : n \in 0..MaxSize},
        df \in {<<>>} \cup {Join(DirB, NameG) :> Blob(2, n) : n \in {1, MaxSize}},
        dd \in {{}} }
       \cup
    { [files |-> Join(DirA, NameF) :> Blob(1, 1), dirs |-> {DirA, DirB, Join(DirB, NameG)}] }

Quiet ==
    /\ claimed_names = {} /\ src_idx = 0 /\ pending = <<>> /\ operations = <<>>
    /\ completed = 0 /\ reported = -1 /\ exit_code = -1
    /\ max_size = 0 /\ start_num = 0 /\ flist = <<>> /\ pack_idx = 0 /\ batches = <<>>
    /\ batch_sizes = <<>> /\ created_dirs = {}
    /\ mv = NoFrame /\ log = <<>>
    /\ scanned = {} /\ prior = <<>> /\ stale = {}
    /\ resolve = NoFrame

InitMove ==
    /\ tool = "move"
    /\ \E fs \in MoveInputs : files = fs.files /\ dirs = fs.dirs
    /\ \E v \in BOOLEAN :
           args = [src |-> Join(DirA, NameF), dest |-> Join(DirB, NameG), verify |-> v]
    /\ pc = "call"
    /\ files0 = files /\ dirs0 = dirs
    /\ Quiet

DirectCall ==
    /\ tool = "move" /\ pc = "call"
    /\ mv' = Frame(args.src, args.dest, args.verify)
    /\ pc' = "moving"
    /\ UNCHANGED <<fsVars, argVars, planVars, packVars, histVars, completed, reported,
                   exit_code, created_dirs, log>>

DirectReturn ==
    /\ tool = "move" /\ pc = "moving"
    /\ mv.pc \in {"returned", "raised"}
    /\ log' = Append(log, LogEntry(mv.pc = "returned"))
    /\ completed' = IF mv.pc = "returned" THEN completed + 1 ELSE completed
    /\ exit_code' = IF mv.pc = "returned" THEN 0 ELSE 1
    /\ pc' = "done"
    /\ mv' = NoFrame
    /\ UNCHANGED <<fsVars, argVars, planVars, packVars, histVars, reported, created_dirs>>

-----------------------------------------------------------------------------
(* consolidate_files.py *)

\* child.relative_to(parent) does not raise: parent is a prefix of child
is_subpath(child, parent) ==
    Len(parent) <= Len(child) /\ SubSeq(child, 1, Len(parent)) = parent

\* check_path_overlap raises BadParameter (paths here are already resolved)
check_path_overlap(target_dir, source_dirs) ==
    \E i \in 1..Len(source_dirs) :
        \/ target_dir = source_dirs[i]
        \/ is_subpath(target_dir, source_dirs[i])
        \/ is_subpath(source_dirs[i], target_dir)

\* every order in which get_all_files can return the regular files below the
\* entries given: iterdir() yields them in any order, a subdirectory's files
\* come together at the place of the subdirectory
RECURSIVE ListingsOf(_)
ListingsOf(entries) ==
    IF entries = {} THEN {<<>>}
    ELSE UNION {
           LET first == IF IsDir(e) THEN ListingsOf(Children(e)) ELSE {<<e>>}
           IN  {h \o t : h \in first, t \in ListingsOf(entries \ {e})}
         : e \in entries}

get_all_files(directory) == ListingsOf(Children(directory))

\* Taken without the claim set: only the disk is asked
Taken_DiskOnly(candidate) == Exists(candidate)

\* line 82: `candidate.exists() or str(candidate) in claimed_names`
Taken(candidate) == Exists(candidate) \/ candidate \in claimed_names

\* the candidate of the loop body: target_dir / f"{stem}_{counter}{suffix}"
Candidate(target_dir, filename, counter) ==
    Join(target_dir, Stem(filename) \o <<"_">> \o Str(counter) \o Suffix(filename))

\* the while loop of get_unique_name from the given counter on
RECURSIVE NextFree(_, _, _)
NextFree(target_dir, filename, counter) ==
    IF Taken(Candidate(target_dir, filename, counter))
    THEN NextFree(target_dir, filename, counter + 1)
    ELSE Candidate(target_dir, filename, counter)

\* get_unique_name with the counter starting at 2
get_unique_name_FromTwo(target_dir, filename) ==
    IF Taken(Join(target_dir, filename))
    THEN NextFree(target_dir, filename, 2)
    ELSE Join(target_dir, filename)

\* the path get_unique_name returns (it also adds it to claimed_names)
get_unique_name(target_dir, filename) ==
    IF Taken(Join(target_dir, filename))
    THEN NextFree(target_dir, filename, 1)
    ELSE Join(target_dir, filename)

\* Path.mkdir(parents=True, exist_ok=True)
Mkdirs(d) == {SubSeq(d, 1, k) : k \in 1..Len(d)}

Exit(code) == pc' = "done" /\ exit_code' = code

\* CStart creating the target directory in a dry run too
CStart_AlwaysMkdir ==
    /\ tool = "consolidate" /\ pc = "start"
    /\ IF args.source_dirs = <<>> \/ check_path_overlap(args.target_dir, args.source_dirs)
       THEN /\ Exit(2)
            /\ UNCHANGED <<dirs, claimed_names, src_idx, scanned>>
       ELSE /\ claimed_names' =
                  IF Exists(args.target_dir)
                  THEN claimed_names \cup
                       {Join(args.target_dir, Name(e)) : e \in Children(args.target_dir)}
                  ELSE claimed_names
            /\ dirs' = dirs \cup Mkdirs(args.target_dir)
            /\ scanned' = IF Exists(args.target_dir)
                          THEN scanned \cup {args.target_dir} ELSE scanned
            /\ src_idx' = 1
            /\ pc' = "scan"
            /\ UNCHANGED exit_code
    /\ UNCHANGED <<files, argVars, pending, operations, packVars, startVars, completed,
                   reported, created_dirs, mv, log>>

\* lines 153-167: argument checks, seeding of claimed_names, creation of the target
CStart ==
    /\ tool = "consolidate" /\ pc = "start"
    /\ IF args.source_dirs = <<>> \/ check_path_overlap(args.target_dir, args.source_dirs)
       THEN /\ Exit(2)
            /\ UNCHANGED <<dirs, claimed_names, src_idx, scanned>>
       ELSE /\ claimed_names' =
                  IF Exists(args.target_dir)
                  THEN claimed_names \cup
                       {Join(args.target_dir, Name(e)) : e \in Children(args.target_dir)}
                  ELSE claimed_names
            /\ dirs' = IF args.dry_run THEN dirs ELSE dirs \cup Mkdirs(args.target_dir)
            /\ scanned' = IF Exists(args.target_dir)
                          THEN scanned \cup {args.target_dir} ELSE scanned
            /\ src_idx' = 1
            /\ pc' = "scan"
            /\ UNCHANGED exit_code
    /\ UNCHANGED <<files, argVars, pending, operations, packVars, startVars, completed,
                   reported, created_dirs, mv, log>>

\* CScanDir leaving out the last file of every listing
CScanDir_DropsLast ==
    /\ tool = "consolidate" /\ pc = "scan"
    /\ src_idx <= Len(args.source_dirs)
    /\ IF ~Exists(args.source_dirs[src_idx])
       THEN /\ src_idx' = src_idx + 1
            /\ UNCHANGED <<pending, pc, scanned>>
       ELSE \E listing \in get_all_files(args.source_dirs[src_idx]) :
               /\ pending' = SubSeq(listing, 1, Len(listing) - 1)
               /\ scanned' = scanned \cup {args.source_dirs[src_idx]}
               /\ IF Len(listing) <= 1
                  THEN src_idx' = src_idx + 1 /\ pc' = "scan"
                  ELSE src_idx' = src_idx /\ pc' = "plan"
    /\ UNCHANGED <<fsVars, argVars, claimed_names, operations, packVars, startVars,
                   completed, reported, exit_code, created_dirs, mv, log>>

\* lines 169-174: the next source directory: skipped when missing, else listed
CScanDir ==
    /\ tool = "consolidate" /\ pc = "scan"
    /\ src_idx <= Len(args.source_dirs)
    /\ IF ~Exists(args.source_dirs[src_idx])
       THEN /\ src_idx' = src_idx + 1
            /\ UNCHANGED <<pending, pc, scanned>>
       ELSE \E listing \in get_all_files(args.source_dirs[src_idx]) :
               /\ pending' = listing
               /\ scanned' = scanned \cup {args.source_dirs[src_idx]}
               /\ IF listing = <<>>
                  THEN src_idx' = src_idx + 1 /\ pc' = "scan"
                  ELSE src_idx' = src_idx /\ pc' = "plan"
    /\ UNCHANGED <<fsVars, argVars, claimed_names, operations, packVars, startVars,
                   completed, reported, exit_code, created_dirs, mv, log>>

\* CPlanFile recording its claims in a real run only: a dry run, which puts
\* nothing on disk, then has no trace of the destinations it gave out
CPlanFile_DryClaimsNothing ==
    /\ tool = "consolidate" /\ pc = "plan"
    /\ LET filepath    == Head(pending)
           simple_dest == Join(args.target_dir, Name(filepath))
           final_dest  == get_unique_name(args.target_dir, Name(filepath))
       IN  /\ claimed_names' = IF args.dry_run THEN claimed_names
                                ELSE claimed_names \cup {final_dest}
           /\ operations' = Append(operations,
                  [src |-> filepath, dest |-> final_dest,
                   renamed |-> (final_dest # simple_dest)])
    /\ pending' = Tail(pending)
    /\ IF Tail(pending) = <<>>
       THEN src_idx' = src_idx + 1 /\ pc' = "scan"
       ELSE UNCHANGED <<src_idx, pc>>
    /\ UNCHANGED <<fsVars, argVars, packVars, histVars, completed, reported, exit_code,
                   created_dirs, mv, log>>

\* lines 175-179: one file of the listing gets its destination
CPlanFile ==
    /\ tool = "consolidate" /\ pc = "plan"
    /\ LET filepath    == Head(pending)
           simple_dest == Join(args.target_dir, Name(filepath))
           final_dest  == get_unique_name(args.target_dir, Name(filepath))
       IN  /\ claimed_names' = claimed_names \cup {final_dest}
           /\ operations' = Append(operations,
                  [src |-> filepath, dest |-> final_dest,
                   renamed |-> (final_dest # simple_dest)])
    /\ pending' = Tail(pending)
    /\ IF Tail(pending) = <<>>
       THEN src_idx' = src_idx + 1 /\ pc' = "scan"
       ELSE UNCHANGED <<src_idx, pc>>
    /\ UNCHANGED <<fsVars, argVars, packVars, histVars, completed, reported, exit_code,
                   created_dirs, mv, log>>

\* lines 181-198: nothing to do, or the dry-run report, or on to the moves
CPlanned ==
    /\ tool = "consolidate" /\ pc = "scan"
    /\ src_idx > Len(args.source_dirs)
    /\ IF operations = <<>> \/ args.dry_run
       THEN Exit(0)
       ELSE pc' = "exec" /\ UNCHANGED exit_code
    /\ UNCHANGED <<fsVars, argVars, planVars, packVars, histVars, completed, reported,
                   created_dirs, mv, log>>

\* CExecCall walking the operations from the last to the first
CExecCall_LastFirst ==
    /\ tool = "consolidate" /\ pc = "exec" /\ mv.pc = "idle"
    /\ IF completed < Len(operations)
       THEN /\ mv' = Frame(operations[Len(operations) - completed].src,
                           operations[Len(operations) - completed].dest, args.verify)
            /\ UNCHANGED <<pc, exit_code>>
       ELSE /\ Exit(0)
            /\ UNCHANGED mv
    /\ UNCHANGED <<fsVars, argVars, planVars, packVars, histVars, completed, reported,
                   created_dirs, log>>

\* lines 201-203: the loop takes the next operation and calls move_file,
\* lines 220-223: or ends with the summary
CExecCall ==
    /\ tool = "consolidate" /\ pc = "exec" /\ mv.pc = "idle"
    /\ IF completed < Len(operations)
       THEN /\ mv' = Frame(operations[completed + 1].src, operations[completed + 1].dest,
                           args.verify)
            /\ UNCHANGED <<pc, exit_code>>
       ELSE /\ Exit(0)
            /\ UNCHANGED mv
    /\ UNCHANGED <<fsVars, argVars, planVars, packVars, histVars, completed, reported,
                   created_dirs, log>>

\* lines 216-218: move_file returned
CExecReturn ==
    /\ tool = "consolidate" /\ pc = "exec" /\ mv.pc = "returned"
    /\ completed' = completed + 1
    /\ log' = Append(log, LogEntry(TRUE))
    /\ mv' = NoFrame
    /\ UNCHANGED <<fsVars, argVars, planVars, packVars, histVars, pc, reported, exit_code,
                   created_dirs>>

\* CExecFail counting the failed move among the completed ones
CExecFail_CountsFailure ==
    /\ tool = "consolidate" /\ pc = "exec" /\ mv.pc = "raised"
    /\ reported' = completed + 1
    /\ log' = Append(log, LogEntry(FALSE))
    /\ mv' = NoFrame
    /\ Exit(1)
    /\ UNCHANGED <<fsVars, argVars, planVars, packVars, histVars, completed, created_dirs>>

\* CExecFail without the `raise typer.Exit(1)` of line 214: the run ends as a
\* run does that has nothing left to do
CExecFail_ExitsZero ==
    /\ tool = "consolidate" /\ pc = "exec" /\ mv.pc = "raised"
    /\ reported' = completed
    /\ log' = Append(log, LogEntry(FALSE))
    /\ mv' = NoFrame
    /\ Exit(0)
    /\ UNCHANGED <<fsVars, argVars, planVars, packVars, histVars, completed, created_dirs>>

\* lines 204-214: move_file raised: report N/total and exit 1
CExecFail ==
    /\ tool = "consolidate" /\ pc = "exec" /\ mv.pc = "raised"
    /\ reported' = completed
    /\ log' = Append(log, LogEntry(FALSE))
    /\ mv' = NoFrame
    /\ Exit(1)
    /\ UNCHANGED <<fsVars, argVars, planVars, packVars, histVars, completed, created_dirs>>

DirT   == <<<<"T">>>>
DirS   == <<<<"S">>>>
DirSub == Join(DirS, <<"d">>)
DirU   == <<<<"U">>>>
DirX   == <<<<"X">>>>

NameAJ  == <<"a", ".", "j">>
NameA1J == <<"a", "_", "1", ".", "j">>

\* the size of the file with the given tag, between 1 and MaxSize
SizeOf(tag) == 1 + (tag % MaxSize)

\* the files that may lie in the source trees when a run starts
SourceFiles ==
    (Join(DirS, NameAJ) :> Blob(1, SizeOf(1))) @@ (Join(DirSub, NameAJ) :> Blob(2, SizeOf(2)))
    @@ (Join(DirU, NameAJ) :> Blob(3, SizeOf(3))) @@ (Join(DirU, NameA1J) :> Blob(4, SizeOf(4)))

\* the target directory when a run starts: missing, empty, holding a.j, or
\* holding a.j and a directory a_1.j
TargetStates ==
    { [files |-> <<>>, dirs |-> {}],
      [files |-> <<>>, dirs |-> {DirT}],
      [files |-> Join(DirT, NameAJ) :> Blob(5, SizeOf(5)), dirs |-> {DirT}],
      [files |-> Join(DirT, NameAJ) :> Blob(5, SizeOf(5)),
       dirs  |-> {DirT, Join(DirT, NameA1J)}] }

\* the command lines tried: two trees, one tree twice, a missing tree, no tree,
\* and the three kinds of overlap
ConsolidateArgs ==
    { [target_dir |-> DirT, source_dirs |-> <<DirS, DirU>>],
      [target_dir |-> DirT, source_dirs |-> <<DirU, DirU>>],
      [target_dir |-> DirT, source_dirs |-> <<DirX, DirS>>],
      [target_dir |-> DirT, source_dirs |-> <<>>],
      [target_dir |-> DirS, source_dirs |-> <<DirS, DirU>>],
      [target_dir |-> DirSub, source_dirs |-> <<DirS>>],
      [target_dir |-> DirS, source_dirs |-> <<DirSub>>] }

Restrict(f, S) == [x \in S |-> f[x]]

InitConsolidate ==
    /\ tool = "consolidate"
    /\ \E present \in SUBSET DOMAIN SourceFiles, t \in TargetStates :
          /\ files = Restrict(SourceFiles, present) @@ t.files
          /\ dirs = {DirS, DirSub, DirU} \cup t.dirs
    /\ \E a \in ConsolidateArgs, d \in BOOLEAN, v \in BOOLEAN :
          args = [target_dir |-> a.target_dir, source_dirs |-> a.source_dirs,
                  dry_run |-> d, verify |-> v]
    /\ pc = "start"
    /\ files0 = files /\ dirs0 = dirs
    /\ Quiet

Consolidate ==
    \/ CStart
    \/ CScanDir
    \/ CPlanFile
    \/ CPlanned
    \/ CExecCall
    \/ CExecReturn
    \/ CExecFail

-----------------------------------------------------------------------------
(* split_dir.py *)

Upper(ch) ==
    CASE ch = "b" -> "B" [] ch = "k" -> "K" [] ch = "m" -> "M"
      [] ch = "g" -> "G" [] ch = "t" -> "T" [] OTHER -> ch

\* SIZE_UNITS[unit]; 0 for a string that is no unit
SIZE_UNITS(unit) ==
    CASE unit = <<"B">>      -> 1
      [] unit = <<"K", "B">> -> 1024
      [] unit = <<"M", "B">> -> 1024 * 1024
      [] unit = <<"G", "B">> -> 1024 * 1024 * 1024
      [] unit = <<"T", "B">> -> 1024 * 1024 * 1024 * 1024
      [] OTHER -> 0

\* str.strip()
RECURSIVE Strip(_)
Strip(s) ==
    IF Len(s) > 0 /\ s[1] = " " THEN Strip(Tail(s))
    ELSE IF Len(s) > 0 /\ s[Len(s)] = " " THEN Strip(SubSeq(s, 1, Len(s) - 1))
    ELSE s

\* how many digits (how many blanks) stand in s from position i on
RECURSIVE DigitRun(_, _)
DigitRun(s, i) == IF i <= Len(s) /\ IsDigit(s[i]) THEN 1 + DigitRun(s, i + 1) ELSE 0
RECURSIVE SpaceRun(_, _)
SpaceRun(s, i) == IF i <= Len(s) /\ s[i] = " " THEN 1 + SpaceRun(s, i + 1) ELSE 0

RECURSIVE Pow10(_)
Pow10(k) == IF k = 0 THEN 1 ELSE 10 * Pow10(k - 1)

\* parse_size: the match of ^(\d+(?:\.\d+)?)\s*(B|KB|MB|GB|TB)?$ (ignoring case)
\* and int(float(number) * unit); ok is FALSE where it raises BadParameter
parse_size(size_str) ==
    LET s       == Strip(size_str)
        whole   == DigitRun(s, 1)
        hasFrac == /\ Len(s) >= whole + 2
                   /\ s[whole + 1] = "."
                   /\ DigitRun(s, whole + 2) >= 1
        frac    == IF hasFrac THEN DigitRun(s, whole + 2) ELSE 0
        numEnd  == IF hasFrac THEN whole + 1 + frac ELSE whole
        rest    == SubSeq(s, numEnd + SpaceRun(s, numEnd + 1) + 1, Len(s))
        unit    == [i \in 1..Len(rest) |-> Upper(rest[i])]
        mult    == IF unit = <<>> THEN 1 ELSE SIZE_UNITS(unit)
        scaled  == ToInt(SubSeq(s, 1, whole)) * Pow10(frac)
                   + ToInt(SubSeq(s, whole + 2, whole + 1 + frac))
    IN  IF whole >= 1 /\ mult > 0
        THEN [ok |-> TRUE, bytes |-> (scaled * mult) \div Pow10(frac)]
        ELSE [ok |-> FALSE, bytes |-> 0]

\* find_max_numbered_dir: the largest int(name) over the all-digit subdirectories
RECURSIVE MaxOf(_)
MaxOf(S) == IF S = {} THEN 0
            ELSE LET x == CHOOSE x \in S : TRUE IN Max(x, MaxOf(S \ {x}))

\* find_max_numbered_dir counting the numbered subdirectories instead
find_max_numbered_dir_Count(source_dir) ==
    Cardinality({c \in Children(source_dir) : IsDir(c) /\ AllDigits(Name(c))})

find_max_numbered_dir(source_dir) ==
    MaxOf({ToInt(Name(e)) : e \in {c \in Children(source_dir) : IsDir(c) /\ AllDigits(Name(c))}})

\* every order in which iterdir() can yield the entries of a set
RECURSIVE Orders(_)
Orders(S) == IF S = {} THEN {<<>>}
             ELSE UNION {{<<e>> \o t : t \in Orders(S \ {e})} : e \in S}

\* files.sort(key=lambda x: x[1], reverse=True): by size descending, and stable
InsertDesc(sorted, x) ==
    LET k == Cardinality({i \in 1..Len(sorted) : sorted[i].size >= x.size})
    IN  SubSeq(sorted, 1, k) \o <<x>> \o SubSeq(sorted, k + 1, Len(sorted))

RECURSIVE SortDesc(_)
SortDesc(list) ==
    IF list = <<>> THEN <<>>
    ELSE InsertDesc(SortDesc(SubSeq(list, 1, Len(list) - 1)), list[Len(list)])

\* SStart with find_max_numbered_dir (line 131) called before parse_size
SStart_ScansFirst ==
    /\ tool = "split" /\ pc = "start"
    /\ IF ~Exists(args.directory) \/ ~IsDir(args.directory)
       THEN Exit(1) /\ UNCHANGED <<max_size, start_num, scanned>>
       ELSE /\ start_num' = find_max_numbered_dir(args.directory)
            /\ scanned' = scanned \cup {args.directory}
            /\ IF ~parse_size(args.split_size).ok
               THEN Exit(2) /\ UNCHANGED max_size
               ELSE /\ max_size' = parse_size(args.split_size).bytes
                    /\ IF max_size' <= 0
                       THEN Exit(1)
                       ELSE pc' = "scan" /\ UNCHANGED exit_code
    /\ UNCHANGED <<fsVars, argVars, planVars, flist, pack_idx, batches, batch_sizes,
                   startVars, completed, reported, created_dirs, mv, log>>

\* lines 115-135: checks of the directory and of the size, numbering start
SStart ==
    /\ tool = "split" /\ pc = "start"
    /\ IF ~Exists(args.directory) \/ ~IsDir(args.directory)
       THEN Exit(1) /\ UNCHANGED <<max_size, start_num, scanned>>
       ELSE IF ~parse_size(args.split_size).ok
            THEN Exit(2) /\ UNCHANGED <<max_size, start_num, scanned>>
            ELSE /\ max_size' = parse_size(args.split_size).bytes
                 /\ IF max_size' <= 0
                    THEN Exit(1) /\ UNCHANGED <<start_num, scanned>>
                    ELSE /\ start_num' = find_max_numbered_dir(args.directory)
                         /\ scanned' = scanned \cup {args.directory}
                         /\ pc' = "scan"
                         /\ UNCHANGED exit_code
    /\ UNCHANGED <<fsVars, argVars, planVars, flist, pack_idx, batches, batch_sizes,
                   startVars, completed, reported, created_dirs, mv, log>>

\* lines 137-149: list the regular files with their sizes, sort them
SScan ==
    /\ tool = "split" /\ pc = "scan"
    /\ \E order \in Orders({e \in Children(args.directory) : IsFile(e)}) :
          LET listed == [i \in 1..Len(order) |->
                            [name |-> Name(order[i]), size |-> StSize(files[order[i]])]]
          IN  IF listed = <<>>
              THEN Exit(0) /\ UNCHANGED <<flist, pack_idx>>
              ELSE /\ flist' = SortDesc(listed)
                   /\ pack_idx' = 1
                   /\ pc' = "pack"
                   /\ UNCHANGED exit_code
    /\ scanned' = scanned \cup {args.directory}
    /\ UNCHANGED <<fsVars, argVars, planVars, max_size, start_num, batches, batch_sizes,
                   startVars, completed, reported, created_dirs, mv, log>>

\* line 152: `if size > max_size`
Oversized(size) == size > max_size

\* Fits testing the batch alone, without the size of the file to add
Fits_BatchOnly(batch_size, size) == batch_size <= max_size

\* line 162: `if batch_size + size <= max_size`
Fits(batch_size, size) == batch_size + size <= max_size

\* SPack without the `break` of line 166: the file joins every batch it fits
SPack_NoBreak ==
    /\ tool = "split" /\ pc = "pack"
    /\ pack_idx <= Len(flist)
    /\ LET entry == flist[pack_idx]
           fit   == {i \in 1..Len(batch_sizes) : batch_sizes[i] + entry.size <= max_size}
       IN  IF entry.size > max_size \/ fit = {}
           THEN /\ batches' = Append(batches, <<entry>>)
                /\ batch_sizes' = Append(batch_sizes, entry.size)
           ELSE /\ batches' = [i \in 1..Len(batches) |->
                                  IF i \in fit THEN Append(batches[i], entry) ELSE batches[i]]
                /\ batch_sizes' = [i \in 1..Len(batches) |->
                                  IF i \in fit THEN batch_sizes[i] + entry.size
                                  ELSE batch_sizes[i]]
    /\ pack_idx' = pack_idx + 1
    /\ UNCHANGED <<fsVars, argVars, planVars, max_size, start_num, flist, histVars, pc,
                   completed, reported, exit_code, created_dirs, mv, log>>

\* SPack taking the last batch that fits instead of the first
SPack_LastFit ==
    /\ tool = "split" /\ pc = "pack"
    /\ pack_idx <= Len(flist)
    /\ LET entry == flist[pack_idx]
           fit   == {i \in 1..Len(batch_sizes) : batch_sizes[i] + entry.size <= max_size}
       IN  IF entry.size > max_size \/ fit = {}
           THEN /\ batches' = Append(batches, <<entry>>)
                /\ batch_sizes' = Append(batch_sizes, entry.size)
           ELSE LET i == CHOOSE i \in fit : \A j \in fit : i >= j
                IN  /\ batches' = [batches EXCEPT ![i] = Append(@, entry)]
                    /\ batch_sizes' = [batch_sizes EXCEPT ![i] = @ + entry.size]
    /\ pack_idx' = pack_idx + 1
    /\ UNCHANGED <<fsVars, argVars, planVars, max_size, start_num, flist, histVars, pc,
                   completed, reported, exit_code, created_dirs, mv, log>>

\* lines 151-170: one round of the packing loop
SPack ==
    /\ tool = "split" /\ pc = "pack"
    /\ pack_idx <= Len(flist)
    /\ LET entry == flist[pack_idx]
           fit   == {i \in 1..Len(batch_sizes) : Fits(batch_sizes[i], entry.size)}
       IN  IF Oversized(entry.size) \/ fit = {}
           THEN /\ batches' = Append(batches, <<entry>>)
                /\ batch_sizes' = Append(batch_sizes, entry.size)
           ELSE LET i == CHOOSE i \in fit : \A j \in fit : i <= j
                IN  /\ batches' = [batches EXCEPT ![i] = Append(@, entry)]
                    /\ batch_sizes' = [batch_sizes EXCEPT ![i] = @ + entry.size]
    /\ pack_idx' = pack_idx + 1
    /\ UNCHANGED <<fsVars, argVars, planVars, max_size, start_num, flist, histVars, pc,
                   completed, reported, exit_code, created_dirs, mv, log>>

\* the operations of batch i and of the batches after it (lines 178-190)
RECURSIVE OpsFrom(_)
OpsFrom(i) ==
    IF i > Len(batches) THEN <<>>
    ELSE LET dir_name == Str(start_num + i)
             dir_path == Join(args.directory, dir_name)
         IN  [k \in 1..Len(batches[i]) |->
                 [src      |-> Join(args.directory, batches[i][k].name),
                  dest     |-> Join(dir_path, batches[i][k].name),
                  dir_name |-> dir_name]]
             \o OpsFrom(i + 1)

\* lines 172-194: the operations of all batches; the dry run ends here
SPlan ==
    /\ tool = "split" /\ pc = "pack"
    /\ pack_idx > Len(flist)
    /\ operations' = OpsFrom(1)
    /\ IF args.dry_run
       THEN Exit(0)
       ELSE pc' = "exec" /\ UNCHANGED exit_code
    /\ UNCHANGED <<fsVars, argVars, claimed_names, src_idx, pending, packVars, histVars,
                   completed, reported, created_dirs, mv, log>>

\* lines 199-208: the loop takes the next operation, creates its directory on
\* first use and calls move_file; line 222: or ends with the summary.
\* mkdir raises FileExistsError, caught by nobody, when dir_path is a regular file.
SExecCall ==
    /\ tool = "split" /\ pc = "exec" /\ mv.pc = "idle"
    /\ IF completed < Len(operations)
       THEN LET op       == operations[completed + 1]
                dir_path == Join(args.directory, op.dir_name)
            IN  IF dir_path \in created_dirs
                THEN /\ mv' = SplitFrame(op.src, op.dest)
                     /\ UNCHANGED <<dirs, created_dirs, pc, exit_code>>
                ELSE IF IsFile(dir_path)
                     THEN /\ Exit(1)
                          /\ UNCHANGED <<dirs, created_dirs, mv>>
                     ELSE /\ dirs' = dirs \cup Mkdirs(dir_path)
                          /\ created_dirs' = created_dirs \cup {dir_path}
                          /\ mv' = SplitFrame(op.src, op.dest)
                          /\ UNCHANGED <<pc, exit_code>>
       ELSE /\ Exit(0)
            /\ UNCHANGED <<dirs, created_dirs, mv>>
    /\ UNCHANGED <<files, argVars, planVars, packVars, histVars, completed, reported, log>>

\* lines 219-220: move_file returned
SExecReturn ==
    /\ tool = "split" /\ pc = "exec" /\ mv.pc = "returned"
    /\ completed' = completed + 1
    /\ log' = Append(log, LogEntry(TRUE))
    /\ mv' = NoFrame
    /\ UNCHANGED <<fsVars, argVars, planVars, packVars, histVars, pc, reported, exit_code,
                   created_dirs>>

\* lines 209-217: move_file raised: report N/total and exit 1
SExecFail ==
    /\ tool = "split" /\ pc = "exec" /\ mv.pc = "raised"
    /\ reported' = completed
    /\ log' = Append(log, LogEntry(FALSE))
    /\ mv' = NoFrame
    /\ Exit(1)
    /\ UNCHANGED <<fsVars, argVars, planVars, packVars, histVars, completed, created_dirs>>

DirD == <<<<"D">>>>

\* the names of the files that may lie in the directory; one is a number
SplitNames == <<<<"x">>, <<"y">>, <<"2">>>>

\* the subdirectories present when a run starts: none, or one numbered with a
\* leading zero and one not numbered
SplitDirs == { {}, {Join(DirD, <<"0", "2">>), Join(DirD, <<"k">>)} }

\* the --split-size values tried: every capacity up to MaxSize, one beyond all
\* files, a fraction that rounds to 0, and a malformed one
SizeStrings ==
    {Str(n) : n \in 0..MaxSize}
    \cup {<<"1", "K", "B">>, <<" ", "0", ".", "5", " ", "b">>, <<"5", "G">>}

InitSplit ==
    /\ tool = "split"
    /\ \E sizes \in [1..Len(SplitNames) -> (-1)..MaxSize], sub \in SplitDirs :
          /\ files = [p \in {Join(DirD, SplitNames[i]) : i \in {j \in 1..Len(SplitNames) : sizes[j] >= 0}}
                        |-> LET i == CHOOSE i \in 1..Len(SplitNames) : Join(DirD, SplitNames[i]) = p
                            IN  Blob(i, sizes[i])]
          /\ dirs = {DirD} \cup sub
    /\ \E s \in SizeStrings, d \in BOOLEAN :
          args \in { [directory |-> DirD, split_size |-> s, dry_run |-> d] }
                   \cup { [directory |-> DirX, split_size |-> Str(1), dry_run |-> FALSE] }
    /\ pc = "start"
    /\ files0 = files /\ dirs0 = dirs
    /\ Quiet

Split ==
    \/ SStart
    \/ SScan
    \/ SPack
    \/ SPlan
    \/ SExecCall
    \/ SExecReturn
    \/ SExecFail

-----------------------------------------------------------------------------

Init == InitMove \/ InitConsolidate \/ InitSplit

Next ==
    \/ MoveStep
    \/ DirectCall
    \/ DirectReturn
    \/ Consolidate
    \/ Split

Spec == Init /\ [][Next]_vars

-----------------------------------------------------------------------------
(* Runs one after another on the same filesystem *)

\* how many times the tool is run on one filesystem
MaxRuns == 2

\* what the history keeps of a run that is over: the filesystem it started
\* on, the directories it created, the moves that succeeded, how it ended
RunRecord ==
    [files0 |-> files0, dirs0 |-> dirs0, created_dirs |-> created_dirs,
     moved |-> {[src |-> log[k].src, dest |-> log[k].dest, placed |-> log[k].placed,
                 via |-> log[k].via] : k \in {j \in 1..Len(log) : log[j].ok}},
     reported |-> reported]

\* a new process: main() starts over, claimed_names (line 26) is empty again
Fresh ==
    /\ claimed_names' = {} /\ src_idx' = 0 /\ pending' = <<>> /\ operations' = <<>>
    /\ completed' = 0 /\ reported' = -1 /\ exit_code' = -1
    /\ max_size' = 0 /\ start_num' = 0 /\ flist' = <<>> /\ pack_idx' = 0
    /\ batches' = <<>> /\ batch_sizes' = <<>> /\ created_dirs' = {}
    /\ mv' = NoFrame /\ log' = <<>> /\ scanned' = {}
    /\ files0' = files /\ dirs0' = dirs
    /\ pc' = "start"

\* after "Stopping. N/total ... Re-run to continue", the same command is run again
Rerun ==
    /\ tool \in {"consolidate", "split"}
    /\ pc = "done" /\ exit_code = 1 /\ reported >= 0
    /\ Len(prior) + 1 < MaxRuns
    /\ prior' = Append(prior, RunRecord)
    /\ Fresh
    /\ UNCHANGED <<fsVars, argVars, stale, resolve>>

\* the runs that can halt on a failed move: real runs of either tool (the
\* files of the split directory have the smallest or the largest size)
InitRerun ==
    \/ InitConsolidate /\ ~args.dry_run
    \/ /\ InitSplit /\ ~args.dry_run
       /\ \A p \in DOMAIN files : StSize(files[p]) \in {1, MaxSize}

RerunNext ==
    \/ MoveStep
    \/ Consolidate
    \/ Split
    \/ Rerun

RerunSpec == InitRerun /\ [][RerunNext]_vars

-----------------------------------------------------------------------------
(* One call of get_unique_name on its own, statement by statement *)

NameA   == <<"a">>
NameA2J == <<"a", "_", "2", ".", "j">>
NameA3J == <<"a", "_", "3", ".", "j">>
NameA1  == <<"a", "_", "1">>
NameA11J == <<"a", "_", "1", "_", "1", ".", "j">>

\* the names an entry of the target or a claim can have when the call is made
ResolveNames == {NameAJ, NameA1J, NameA2J, NameA3J, NameA11J, NameA, NameA1}

\* the file names the call is made for: with a suffix, with a stem that ends
\* in _1, without a suffix
ResolveFilenames == {NameAJ, NameA1J, NameA}

\* the target directory holds any of the names as a regular file or as a
\* directory, and any of the names is claimed, on disk or not
InitResolve ==
    /\ tool = "resolve"
    /\ \E asFile \in SUBSET ResolveNames, asDir \in SUBSET {NameA1J, NameA2J},
          claimed \in SUBSET {NameAJ, NameA1J, NameA2J, NameA3J, NameA1} :
          /\ asFile \cap asDir = {}
          /\ files = [p \in {Join(DirT, n) : n \in asFile} |-> Blob(5, 1)]
          /\ dirs = {DirT} \cup {Join(DirT, n) : n \in asDir}
          /\ claimed_names = {Join(DirT, n) : n \in claimed}
    /\ \E f \in ResolveFilenames : args = [target_dir |-> DirT, filename |-> f]
    /\ pc = "call"
    /\ files0 = files /\ dirs0 = dirs
    /\ src_idx = 0 /\ pending = <<>> /\ operations = <<>>
    /\ completed = 0 /\ reported = -1 /\ exit_code = -1
    /\ max_size = 0 /\ start_num = 0 /\ flist = <<>> /\ pack_idx = 0 /\ batches = <<>>
    /\ batch_sizes = <<>> /\ created_dirs = {}
    /\ mv = NoFrame /\ log = <<>>
    /\ scanned = {} /\ prior = <<>> /\ stale = {}
    /\ resolve = NoFrame

resolveFrame == <<fsVars, argVars, src_idx, pending, operations, packVars, completed,
                  reported, exit_code, created_dirs, mv, files0, dirs0, log, scanned,
                  prior, stale>>

\* lines 77-80: stem, suffix, the first candidate target_dir / filename,
\* counter = 1 (history: the claims at the call)
ResolveCall ==
    /\ tool = "resolve" /\ pc = "call"
    /\ resolve' = [pc |-> "while", candidate |-> Join(args.target_dir, args.filename),
                   counter |-> 1, claimed |-> claimed_names]
    /\ pc' = "resolving"
    /\ UNCHANGED <<claimed_names, resolveFrame>>

\* ResolveLoop without the `counter += 1` of line 84
ResolveLoop_SameCounter ==
    /\ tool = "resolve" /\ resolve.pc = "while"
    /\ Taken(resolve.candidate)
    /\ resolve' = [resolve EXCEPT
                      !.candidate = Candidate(args.target_dir, args.filename, resolve.counter)]
    /\ UNCHANGED <<claimed_names, pc, resolveFrame>>

\* lines 82-84: the condition of the while holds: the next candidate, counter += 1
ResolveLoop ==
    /\ tool = "resolve" /\ resolve.pc = "while"
    /\ Taken(resolve.candidate)
    /\ resolve' = [resolve EXCEPT
                      !.candidate = Candidate(args.target_dir, args.filename, resolve.counter),
                      !.counter = resolve.counter + 1]
    /\ UNCHANGED <<claimed_names, pc, resolveFrame>>

\* lines 82, 86-87: the condition of the while fails: claim the candidate, return it
ResolveReturn ==
    /\ tool = "resolve" /\ resolve.pc = "while"
    /\ ~Taken(resolve.candidate)
    /\ claimed_names' = claimed_names \cup {resolve.candidate}
    /\ resolve' = [resolve EXCEPT !.pc = "returned"]
    /\ pc' = "done"
    /\ UNCHANGED resolveFrame

ResolveNext ==
    \/ ResolveCall
    \/ ResolveLoop
    \/ ResolveReturn

\* a running call goes on to its next statement
ResolveSpec == InitResolve /\ [][ResolveNext]_vars /\ WF_vars(ResolveNext)

-----------------------------------------------------------------------------
(* Properties of move_file *)

MoveEnded     == mv.pc \in {"returned", "raised"}
ExistedBefore(p) == p \in DOMAIN mv.before \/ p \in dirs

\* C1: a call whose dest exists beforehand never gets past the no-clobber test:
\* it attempts no rename and no copy, fails with the destination-exists error,
\* and leaves every file (src and the old dest among them) as it was.
C1_NoClobber ==
    (mv.pc # "idle" /\ ExistedBefore(mv.dest)) =>
        /\ mv.pc \in {"begin", "raised"}
        /\ mv.pc = "raised" => mv.error = "FileExistsError"
        /\ files = mv.before

C1_Witness ==
    /\ mv.pc = "raised" /\ mv.dest \in DOMAIN mv.before /\ mv.src \in DOMAIN mv.before
    /\ mv.before[mv.dest] # mv.before[mv.src]

\* C2: whenever move_file fails, no file the call created remains at dest and
\* src is as it was before the call.
C2_FailureAtomic ==
    mv.pc = "raised" =>
        /\ mv.dest \notin DOMAIN mv.before => mv.dest \notin DOMAIN files
        /\ mv.src \in DOMAIN mv.before =>
               mv.src \in DOMAIN files /\ files[mv.src] = mv.before[mv.src]

\* C3 as stated: whenever move_file returns, src is gone and dest holds exactly
\* the bytes src had.
C3_SuccessExactBytes ==
    mv.pc = "returned" =>
        /\ mv.src \notin DOMAIN files
        /\ mv.dest \in DOMAIN files
        /\ files[mv.dest] = mv.before[mv.src]

\* C3 amended: whenever move_file returns, src is gone and dest holds a file of
\* exactly the size src had; it holds exactly the bytes src had when the move
\* was a rename or verify was set.
C3_Success ==
    mv.pc = "returned" =>
        /\ mv.src \notin DOMAIN files
        /\ mv.dest \in DOMAIN files
        /\ StSize(files[mv.dest]) = StSize(mv.before[mv.src])
        /\ (mv.via = "rename" \/ mv.verify) => files[mv.dest] = mv.before[mv.src]

C3_Witness ==
    /\ mv.pc = "returned" /\ mv.via = "copy" /\ mv.verify
    /\ StSize(mv.before[mv.src]) > 1

\* C4: when the rename failed with the cross-device error and the copy differs
\* from src in size, or under verify in checksum, the call fails, dest is gone
\* again and src is intact.
C4_BadCopyCleanedUp ==
    ( /\ MoveEnded /\ mv.via = "copy" /\ mv.copy_returned
      /\ \/ StSize(mv.copied) # StSize(mv.before[mv.src])
         \/ mv.verify /\ Sha256(mv.copied) # Sha256(mv.before[mv.src]) )
    => /\ mv.pc = "raised"
       /\ mv.error \in {"SizeMismatch", "ChecksumMismatch"}
       /\ mv.dest \notin DOMAIN files
       /\ mv.src \in DOMAIN files /\ files[mv.src] = mv.before[mv.src]

C4_Witness ==
    /\ mv.pc = "raised" /\ mv.error = "ChecksumMismatch" /\ mv.copy_returned
    /\ mv.dest \notin DOMAIN files

-----------------------------------------------------------------------------
(* Properties of the packing of split *)

RECURSIVE SumSizes(_)
SumSizes(batch) ==
    IF batch = <<>> THEN 0 ELSE batch[1].size + SumSizes(Tail(batch))

\* the packing loop has run over the whole list
PackDone == tool = "split" /\ pack_idx > Len(flist) /\ flist # <<>>

\* the operations of the split run are planned
SplitPlanned == tool = "split" /\ operations # <<>>

\* the regular files that lay in the directory when the run started
SplitScanned == {p \in DOMAIN files0 : Parent(p) = args.directory}

\* the places <<i, k>> of the batches where the file of the given name stands
PlacesOf(name) ==
    {pl \in UNION {{<<i, k>> : k \in 1..Len(batches[i])} : i \in 1..Len(batches)} :
        batches[pl[1]][pl[2]].name = name}

\* C5: after the packing loop every bin whose members sum to more than max_size
\* holds exactly one file (so every other bin sums to at most max_size), and
\* every file larger than max_size is alone in its bin.
C5_BinCapacity ==
    PackDone =>
        \A i \in 1..Len(batches) :
            /\ SumSizes(batches[i]) > max_size => Len(batches[i]) = 1
            /\ \A k \in 1..Len(batches[i]) :
                   batches[i][k].size > max_size => Len(batches[i]) = 1

C5_Witness ==
    /\ PackDone /\ pc = "pack"
    /\ \E i \in 1..Len(batches) : SumSizes(batches[i]) > max_size
    /\ \E i \in 1..Len(batches) :
           Len(batches[i]) >= 2 /\ SumSizes(batches[i]) = max_size

\* C6: every regular file of the directory stands at exactly one place of the
\* bins, the bins hold nothing else, and once the operations are planned each
\* file is the source of exactly one operation, which leads into the directory
\* of the file's bin.
C6_Partition ==
    /\ PackDone =>
          /\ \A p \in SplitScanned : Cardinality(PlacesOf(Name(p))) = 1
          /\ \A i \in 1..Len(batches) : \A k \in 1..Len(batches[i]) :
                 /\ Join(args.directory, batches[i][k].name) \in SplitScanned
                 /\ batches[i][k].size =
                        StSize(files0[Join(args.directory, batches[i][k].name)])
    /\ SplitPlanned =>
          /\ Len(operations) = Cardinality(SplitScanned)
          /\ \A p \in SplitScanned :
                \E j \in 1..Len(operations) :
                    /\ operations[j].src = p
                    /\ \A j2 \in 1..Len(operations) : operations[j2].src = p => j2 = j
                    /\ \E pl \in PlacesOf(Name(p)) :
                           operations[j].dest =
                               Join(Join(args.directory, Str(start_num + pl[1])), Name(p))

C6_Witness ==
    /\ SplitPlanned /\ pc = "exec"
    /\ Cardinality(SplitScanned) = Len(SplitNames)
    /\ Len(batches) = 2

-----------------------------------------------------------------------------
(* Properties of the runs *)

\* the regular files below the source directories when the run started
ConsolidateScanned ==
    {p \in DOMAIN files0 :
        \E i \in 1..Len(args.source_dirs) : is_subpath(p, args.source_dirs[i])}

\* what lay in the target directory when the run started
TargetBefore == {p \in (DOMAIN files0) \cup dirs0 : is_subpath(p, args.target_dir)}

\* C7: at every moment of a consolidate run, from planning on, no two planned
\* operations have the same destination, and no planned destination is a path
\* that existed in the target directory when the run started.
C7_UniqueDestinations ==
    tool = "consolidate" =>
        /\ \A i, j \in 1..Len(operations) :
               operations[i].dest = operations[j].dest => i = j
        /\ \A i \in 1..Len(operations) :
               /\ operations[i].dest \notin TargetBefore
               /\ Parent(operations[i].dest) = args.target_dir

C7_Witness ==
    /\ tool = "consolidate" /\ pc = "plan" /\ files = files0
    /\ Join(DirT, NameAJ) \in DOMAIN files0
    /\ Join(DirT, NameA1J) \in dirs0
    /\ Len(operations) >= 2
    /\ \A i \in 1..Len(operations) : Name(operations[i].src) = NameAJ

\* a consolidate run that moved something and ended without a failed move
ConsolidatedAll ==
    /\ tool = "consolidate" /\ pc = "done" /\ exit_code = 0
    /\ ~args.dry_run /\ operations # <<>>

\* the operations whose source is p
OpsOf(p) == {j \in 1..Len(operations) : operations[j].src = p}

\* C8 as stated: after a consolidate run without a failed move every scanned
\* file is in the target under its own destination with its original content,
\* none is left at its source, and what was in the target is unchanged.
C8_NoLossExactBytes ==
    ConsolidatedAll =>
        /\ \A p \in ConsolidateScanned :
               /\ Cardinality(OpsOf(p)) = 1
               /\ p \notin DOMAIN files
               /\ \A j \in OpsOf(p) :
                      /\ operations[j].dest \in DOMAIN files
                      /\ files[operations[j].dest] = files0[p]
        /\ \A q \in TargetBefore \cap DOMAIN files0 :
               q \in DOMAIN files /\ files[q] = files0[q]

\* C8 amended: as C8, with the original size for every file, and the original
\* content for the files moved by rename and for all files under --verify.
C8_NoLoss ==
    ConsolidatedAll =>
        /\ \A p \in ConsolidateScanned :
               /\ Cardinality(OpsOf(p)) = 1
               /\ p \notin DOMAIN files
               /\ \A j \in OpsOf(p) :
                      /\ operations[j].dest \in DOMAIN files
                      /\ StSize(files[operations[j].dest]) = StSize(files0[p])
                      /\ (args.verify \/ log[j].via = "rename") =>
                             files[operations[j].dest] = files0[p]
        /\ \A i, j \in 1..Len(operations) :
               operations[i].dest = operations[j].dest => i = j
        /\ \A q \in TargetBefore \cap DOMAIN files0 :
               q \in DOMAIN files /\ files[q] = files0[q]

C8_Witness ==
    /\ ConsolidatedAll
    /\ Join(DirT, NameAJ) \in DOMAIN files0
    /\ Cardinality(ConsolidateScanned) = Cardinality(DOMAIN SourceFiles)
    /\ \E j \in 1..Len(log) : log[j].via = "copy"
    /\ \E j \in 1..Len(log) : log[j].via = "rename"

\* C9: in both tools the moves before a failed one all succeeded and stay in
\* place (the file put at the destination is there, the source is gone), the
\* failed move is the last call of move_file of the run, the count reported is
\* the number of moves that succeeded, and the run exits with status 1.
C9_StopOnFirstFailure ==
    tool \in {"consolidate", "split"} =>
        /\ \A k \in 1..Len(log) :
               /\ k < Len(log) => log[k].ok
               /\ log[k].ok =>
                      /\ log[k].dest \in DOMAIN files
                      /\ files[log[k].dest] = log[k].placed
                      /\ log[k].src \notin DOMAIN files
               /\ log[k].src = operations[k].src /\ log[k].dest = operations[k].dest
        /\ (Len(log) > 0 /\ ~log[Len(log)].ok) =>
               /\ pc = "done" /\ mv.pc = "idle"
               /\ exit_code = 1
               /\ completed = Len(log) - 1
               /\ reported = completed

C9_Witness ==
    /\ tool = "split" /\ pc = "done" /\ exit_code = 1
    /\ Len(log) >= 2 /\ ~log[Len(log)].ok /\ reported = Len(log) - 1
    /\ Len(operations) > Len(log)

\* C10: in a dry run of consolidate or split the files and the directories are
\* at every moment what they were when the run started.
C10_DryRunFrame ==
    (tool \in {"consolidate", "split"} /\ args.dry_run) =>
        files = files0 /\ dirs = dirs0

C10_Witness ==
    /\ tool = "consolidate" /\ args.dry_run /\ pc = "done" /\ exit_code = 0
    /\ DirT \notin dirs0
    /\ Len(operations) >= 2

-----------------------------------------------------------------------------
(* Another process at work on the files between the scan and the moves *)

\* what a scanned file can hold after another process wrote to it: other
\* bytes of the same number, or one byte more
Rewrites(content) ==
    {[i \in 1..Len(content) |-> 9], Append(content, 9)} \ {content}

\* once in a run, between two moves (after the scan of lines 174 / 138-140 and
\* before the move_file call of lines 203 / 208 for it), a file still to be
\* moved is removed or rewritten by another process
Interfere ==
    /\ tool \in {"consolidate", "split"}
    /\ pc = "exec" /\ mv.pc = "idle" /\ stale = {}
    /\ \E j \in (completed + 1)..Len(operations) :
          LET p == operations[j].src
          IN  /\ p \in DOMAIN files
              /\ \/ /\ files' = Remove(files, p)
                    /\ stale' = {[path |-> p, removed |-> TRUE]}
                 \/ \E content \in Rewrites(files[p]) :
                       /\ files' = Put(files, p, content)
                       /\ stale' = {[path |-> p, removed |-> FALSE]}
    /\ UNCHANGED <<dirs, argVars, pc, planVars, packVars, completed, reported, exit_code,
                   created_dirs, mv, files0, dirs0, log, scanned, prior, resolve>>

StaleNext ==
    \/ Next
    \/ Interfere

StaleSpec == Init /\ [][StaleNext]_vars

-----------------------------------------------------------------------------
(* The packing of split on its own: dry runs over a directory of four files *)

PackNames == <<<<"a">>, <<"b">>, <<"c">>, <<"d">>>>

\* the sizes of a, b, c, d and the capacity of the worked example
ExampleSizes    == <<6, 5, 4, 3>>
ExampleCapacity == <<"1", "0">>

\* each file is missing, has a size up to MaxSize, or its size of the example;
\* the capacity is any up to MaxSize or the one of the example
InitPack ==
    /\ tool = "split"
    /\ \E sizes \in [1..Len(PackNames) -> (-1)..Max(MaxSize, 6)] :
          /\ \A i \in 1..Len(PackNames) : sizes[i] <= MaxSize \/ sizes[i] = ExampleSizes[i]
          /\ files = [p \in {Join(DirD, PackNames[i]) :
                                 i \in {j \in 1..Len(PackNames) : sizes[j] >= 0}}
                        |-> LET i == CHOOSE i \in 1..Len(PackNames) :
                                         Join(DirD, PackNames[i]) = p
                            IN  Blob(i, sizes[i])]
    /\ dirs = {DirD}
    /\ \E s \in {Str(n) : n \in 1..MaxSize} \cup {ExampleCapacity} :
          args = [directory |-> DirD, split_size |-> s, dry_run |-> TRUE]
    /\ pc = "start"
    /\ files0 = files /\ dirs0 = dirs
    /\ Quiet

PackNext ==
    \/ SStart
    \/ SScan
    \/ SPack
    \/ SPlan

PackSpec == InitPack /\ [][PackNext]_vars

-----------------------------------------------------------------------------
(* A split, then a consolidate of the directories it made *)

\* the target of the consolidate when the split starts: missing, or holding a
\* file named like one of the files to split
RoundTripTargets ==
    { [files |-> <<>>, dirs |-> {}],
      [files |-> Join(DirT, SplitNames[1]) :> Blob(5, 1), dirs |-> {DirT}] }

\* a flat directory of up to three files of the smallest or the largest size,
\* a capacity > 0, a real run
InitRoundTrip ==
    /\ tool = "split"
    /\ \E sizes \in [1..Len(SplitNames) -> {-1, 1, MaxSize}], sub \in SplitDirs,
          t \in RoundTripTargets :
          /\ files = [p \in {Join(DirD, SplitNames[i]) :
                                 i \in {j \in 1..Len(SplitNames) : sizes[j] >= 0}}
                        |-> LET i == CHOOSE i \in 1..Len(SplitNames) :
                                         Join(DirD, SplitNames[i]) = p
                            IN  Blob(i, sizes[i])] @@ t.files
          /\ dirs = {DirD} \cup sub \cup t.dirs
    /\ \E n \in 1..MaxSize :
          args = [directory |-> DirD, split_size |-> Str(n), dry_run |-> FALSE]
    /\ pc = "start"
    /\ files0 = files /\ dirs0 = dirs
    /\ Quiet

\* after a split that ended with "Done!": consolidate T <dir 1> <dir 2> ...
\* over the numbered directories the split made, with or without --verify
ConsolidateBack ==
    /\ tool = "split" /\ pc = "done" /\ exit_code = 0 /\ operations # <<>>
    /\ prior = <<>>
    /\ tool' = "consolidate"
    /\ \E v \in BOOLEAN :
          args' = [target_dir  |-> DirT,
                   source_dirs |-> [i \in 1..Len(batches) |->
                                       Join(args.directory, Str(start_num + i))],
                   dry_run |-> FALSE, verify |-> v]
    /\ prior' = Append(prior, RunRecord)
    /\ Fresh
    /\ UNCHANGED <<fsVars, stale, resolve>>

RoundTripNext ==
    \/ MoveStep
    \/ Split
    \/ ConsolidateBack
    \/ Consolidate

RoundTripSpec == InitRoundTrip /\ [][RoundTripNext]_vars

-----------------------------------------------------------------------------
(* A dry run, then the same command without --dry-run *)

\* what the history keeps of a dry run: the operations it printed ("Would
\* move: src -> dest (renamed)" / "dir/: N files" with its files), the sorted
\* list of split, how it ended
DryRecord ==
    [operations |-> operations, flist |-> flist, exit_code |-> exit_code]

\* the dry runs of either tool
InitDry ==
    \/ InitConsolidate /\ args.dry_run
    \/ InitSplit /\ args.dry_run

\* after the dry run is over, the same command line is run without --dry-run
\* on the filesystem the dry run left as it was
RealRun ==
    /\ tool \in {"consolidate", "split"}
    /\ pc = "done" /\ args.dry_run
    /\ prior = <<>>
    /\ args' = [args EXCEPT !.dry_run = FALSE]
    /\ prior' = Append(prior, DryRecord)
    /\ Fresh
    /\ UNCHANGED <<fsVars, tool, stale, resolve>>

DryRealNext ==
    \/ MoveStep
    \/ Consolidate
    \/ Split
    \/ RealRun

DryRealSpec == InitDry /\ [][DryRealNext]_vars

-----------------------------------------------------------------------------
(* Properties of the numbering of split and of runs after a failed one *)

\* the subdirectories with an all-digit name present when the run started
NumberedBefore ==
    {d \in dirs0 : Parent(d) = args.directory /\ AllDigits(Name(d))}

\* the directories the moves of this run went into, the running move included
MovedInto ==
    {Parent(log[k].dest) : k \in 1..Len(log)}
        \cup (IF mv.pc = "idle" THEN {} ELSE {Parent(mv.dest)})

\* C11: in every split run start_num is the largest integer value of the
\* all-digit subdirectories present at the start (0 without any), the members
\* of the i-th bin (counting from 1 here) are all moved into the directory
\* named str(start_num + i), every directory a move goes into has a number
\* greater than every numbered directory present at the start, and no planned
\* destination lies in a directory an earlier run created.
C11_AdditiveNumbering ==
    (tool = "split" /\ pc \in {"scan", "pack", "exec", "done"} /\ max_size > 0) =>
        /\ \A d \in NumberedBefore : ToInt(Name(d)) <= start_num
        /\ IF NumberedBefore = {} THEN start_num = 0
           ELSE \E d \in NumberedBefore : ToInt(Name(d)) = start_num
        /\ SplitPlanned =>
               \A i \in 1..Len(batches) : \A k \in 1..Len(batches[i]) :
                   \E j \in 1..Len(operations) :
                       /\ operations[j].src = Join(args.directory, batches[i][k].name)
                       /\ operations[j].dir_name = Str(start_num + i)
                       /\ Parent(operations[j].dest) =
                              Join(args.directory, Str(start_num + i))
        /\ \A m \in MovedInto :
               /\ Parent(m) = args.directory /\ AllDigits(Name(m))
               /\ \A d \in NumberedBefore : ToInt(Name(m)) > ToInt(Name(d))
               /\ m \notin dirs0
        /\ \A r \in 1..Len(prior) : \A j \in 1..Len(operations) :
               Parent(operations[j].dest) \notin prior[r].created_dirs

C11_Witness ==
    /\ tool = "split" /\ Len(prior) = 1
    /\ Join(DirD, <<"0", "2">>) \in prior[1].dirs0
    /\ Join(DirD, <<"3">>) \in prior[1].created_dirs
    /\ Len(batches) >= 2
    /\ \E k \in 1..Len(log) : log[k].ok /\ Parent(log[k].dest) = Join(DirD, <<"5">>)

\* the regular files the first run found in its source directories
OriginallyScanned ==
    LET first == IF prior = <<>> THEN files0 ELSE prior[1].files0
    IN  IF tool = "split"
        THEN {p \in DOMAIN first : Parent(p) = args.directory}
        ELSE {p \in DOMAIN first :
                 \E i \in 1..Len(args.source_dirs) : is_subpath(p, args.source_dirs[i])}

\* the successful moves of the earlier runs and of this one
MovesSoFar ==
    UNION {prior[r].moved : r \in 1..Len(prior)}
        \cup {[src |-> log[k].src, dest |-> log[k].dest, placed |-> log[k].placed,
                via |-> log[k].via] : k \in {j \in 1..Len(log) : log[j].ok}}

\* a run after a run that halted on a failed move
IsRerun == prior # <<>> /\ tool \in {"consolidate", "split"}

\* the part of C12 about what a re-run plans and what it leaves alone: it plans
\* exactly files present at their sources when it starts, none of them a file
\* an earlier run moved, and everything an earlier run moved stays where it
\* was put, with the bytes put there.
C12_RerunSafe ==
    IsRerun =>
        /\ \A j \in 1..Len(operations) :
               /\ operations[j].src \in DOMAIN files0
               /\ operations[j].src \in OriginallyScanned
               /\ \A r \in 1..Len(prior) : \A m \in prior[r].moved :
                      operations[j].src # m.src /\ operations[j].dest # m.dest
        /\ \A r \in 1..Len(prior) : \A m \in prior[r].moved :
               m.dest \in DOMAIN files /\ files[m.dest] = m.placed

\* every file the first run found is gone from its source and was moved by
\* exactly one successful move of all runs, whose destination holds it
AllMovedOnce ==
    \A p \in OriginallyScanned :
        /\ p \notin DOMAIN files
        /\ Cardinality({m \in MovesSoFar : m.src = p}) = 1
        /\ \A m \in MovesSoFar : m.src = p => m.dest \in DOMAIN files

\* C12 as stated: a re-run plans only files still at their sources, leaves what
\* was moved alone, and, once it is over without a failed move, every file the
\* first run found has been moved exactly once.
C12_RerunRecovers ==
    /\ C12_RerunSafe
    /\ (IsRerun /\ pc = "done" /\ \A k \in 1..Len(log) : log[k].ok) => AllMovedOnce

\* the same with "the re-run exits with status 0" for "no move fails"
C12_RerunExitZero ==
    (IsRerun /\ pc = "done" /\ exit_code = 0) => AllMovedOnce

-----------------------------------------------------------------------------
(* Properties of a split followed by a consolidate *)

\* the consolidate that followed a split has ended without a failed move
RoundTripDone == ConsolidatedAll /\ prior # <<>>

\* the files of the flat directory before the split
SplitOriginals == {p \in DOMAIN prior[1].files0 : Parent(p) = DirD}

\* the files of the target that were not there before the split
Arrived ==
    {q \in DOMAIN files : Parent(q) = args.target_dir /\ q \notin DOMAIN prior[1].files0}

\* name is orig, or stem_N.ext of orig for some N >= 1
RenamedVariant(name, orig) ==
    \/ name = orig
    \/ \E n \in 1..(Len(operations) + 1) :
           name = Stem(orig) \o <<"_">> \o Str(n) \o Suffix(orig)

\* the ways <<move of the split, operation of the consolidate>> that led the
\* original file p into the target
WaysOf(p) ==
    {w \in prior[1].moved \X (1..Len(operations)) :
        w[1].src = p /\ operations[w[2]].src = w[1].dest}

\* the parts of C13 that do not speak of the bytes: N files arrive in the
\* target, one per original file and under its name or a renamed variant of
\* it, with the original size; the numbered directories hold no file any
\* more; what was in the target is unchanged.
RoundTripFrame ==
    /\ Cardinality(Arrived) = Cardinality(SplitOriginals)
    /\ \A p \in SplitOriginals :
           /\ p \notin DOMAIN files
           /\ Cardinality(WaysOf(p)) = 1
           /\ \A w \in WaysOf(p) :
                  LET q == operations[w[2]].dest
                  IN  /\ q \in Arrived
                      /\ RenamedVariant(Name(q), Name(p))
                      /\ StSize(files[q]) = StSize(prior[1].files0[p])
    /\ \A q1, q2 \in Arrived :
           (\E p \in SplitOriginals : \E w1, w2 \in WaysOf(p) :
                operations[w1[2]].dest = q1 /\ operations[w2[2]].dest = q2) => q1 = q2
    /\ \A f \in DOMAIN files :
           \A i \in 1..Len(args.source_dirs) : ~is_subpath(f, args.source_dirs[i])
    /\ \A q \in DOMAIN prior[1].files0 :
           Parent(q) = args.target_dir => q \in DOMAIN files /\ files[q] = prior[1].files0[q]

\* C13 as stated: after a successful split and a successful consolidate of
\* the directories it made, the target holds exactly the N files, each with
\* its original content, under the original names or renamed variants, and
\* the numbered directories hold no file.
C13_RoundTripExactBytes ==
    RoundTripDone =>
        /\ RoundTripFrame
        /\ \A p \in SplitOriginals : \A w \in WaysOf(p) :
               files[operations[w[2]].dest] = prior[1].files0[p]

\* C13 amended: as C13, with the original size for every file (so the same
\* total bytes), and the original content for every file that the split moved
\* by rename and the consolidate moved by rename or under --verify.
C13_RoundTrip ==
    RoundTripDone =>
        /\ RoundTripFrame
        /\ \A p \in SplitOriginals : \A w \in WaysOf(p) :
               (w[1].via = "rename" /\ (log[w[2]].via = "rename" \/ args.verify)) =>
                   files[operations[w[2]].dest] = prior[1].files0[p]

C13_Witness ==
    /\ RoundTripDone
    /\ Cardinality(SplitOriginals) = Len(SplitNames)
    /\ DirT \in prior[1].dirs0
    /\ Len(args.source_dirs) >= 2
    /\ Join(DirT, SplitNames[1] \o <<"_", "1">>) \in Arrived
    /\ \E k \in 1..Len(log) : log[k].via = "copy"
    /\ \A q \in Arrived : \E p \in SplitOriginals : files[q] = prior[1].files0[p]

-----------------------------------------------------------------------------
(* Properties of the exit status and of rejected arguments *)

\* one path is the other or lies inside it
Nested(a, b) ==
    \/ \E k \in 0..Len(a) : SubSeq(a, 1, k) = b
    \/ \E k \in 0..Len(b) : SubSeq(b, 1, k) = a

\* the target equals, is inside, or contains a source directory
TargetOverlaps ==
    \E i \in 1..Len(args.source_dirs) : Nested(args.target_dir, args.source_dirs[i])

\* a move of the run has failed
MoveFailed == \E k \in 1..Len(log) : ~log[k].ok

\* every planned move was made and succeeded
AllMovesMade ==
    Len(log) = Len(operations) /\ \A k \in 1..Len(log) : log[k].ok

\* the --split-size strings of the model that are no size, and those that are
\* a size of zero bytes
MalformedSizes == {<<"5", "G">>}
ZeroSizes      == {<<"0">>, <<" ", "0", ".", "5", " ", "b">>}

\* the exit status the claim gives a finished run, with usageError the status
\* of a rejected command line (overlapping directories, a malformed size)
ExitStatusIs(usageError) ==
    /\ (tool = "consolidate" /\ pc = "done") =>
           exit_code =
               IF args.source_dirs = <<>> THEN 2
               ELSE IF TargetOverlaps THEN usageError
               ELSE IF MoveFailed THEN 1
               ELSE 0
    /\ (tool = "consolidate" /\ pc = "done" /\ exit_code = 0) =>
           args.dry_run \/ operations = <<>> \/ AllMovesMade
    /\ (tool = "split" /\ pc = "done" /\ args.directory \in dirs0) =>
           /\ args.split_size \in MalformedSizes => exit_code = usageError
           /\ args.split_size \in ZeroSizes => exit_code = 1
           /\ MoveFailed => exit_code = 1
           /\ args.split_size \notin MalformedSizes \cup ZeroSizes =>
                  /\ exit_code \in {0, 1}
                  /\ exit_code = 0 <=>
                         \/ SplitScanned = {}
                         \/ args.dry_run
                         \/ AllMovesMade

\* C14 as stated: consolidate exits 0 when every planned move succeeded, in a
\* dry run and when no file was found, 1 after a failed move and 1 when the
\* target overlaps a source directory; split exits 0 on success, in a dry run
\* and for a directory without files, 1 after a failed move, 1 for a size that
\* is not positive and 1 for a malformed size string.
C14_ExitStatusOne == ExitStatusIs(1)

\* C14 amended: as C14, but the status is 2 when the target overlaps a source
\* directory and when the size string is malformed.
C14_ExitStatus == ExitStatusIs(2)

C14_Witness ==
    /\ tool = "consolidate" /\ pc = "done" /\ exit_code = 2
    /\ args.target_dir = DirSub /\ args.dry_run
    /\ DOMAIN files0 # {}

-----------------------------------------------------------------------------
(* Properties of the result of the packing *)

\* the list of (name, size) that lines 137-140 build for a scan order
Listing(order) ==
    [i \in 1..Len(order) |-> [name |-> Name(order[i]), size |-> StSize(files[order[i]])]]

\* where the entry of the given name stands in a list
PosOf(list, name) == CHOOSE i \in 1..Len(list) : list[i].name = name

\* sorted holds the entries of listed by size descending, ties in the order of listed
StableDescending(sorted, listed) ==
    /\ Len(sorted) = Len(listed)
    /\ \A i \in 1..Len(listed) : \E j \in 1..Len(sorted) : sorted[j] = listed[i]
    /\ \A i, j \in 1..Len(sorted) :
           i < j =>
               /\ sorted[i].size >= sorted[j].size
               /\ sorted[i].size = sorted[j].size =>
                      PosOf(listed, sorted[i].name) < PosOf(listed, sorted[j].name)

\* the reference procedure: a file larger than the capacity gets a new bin, any
\* other goes into the first bin whose total plus its size is <= capacity, or
\* into a new bin when there is none
RefAdd(bins, entry, capacity) ==
    LET fit == {i \in 1..Len(bins) : SumSizes(bins[i]) + entry.size <= capacity}
    IN  IF entry.size > capacity \/ fit = {}
        THEN Append(bins, <<entry>>)
        ELSE LET first == CHOOSE i \in fit : \A j \in fit : i <= j
             IN  [bins EXCEPT ![first] = Append(@, entry)]

RECURSIVE RefBins(_, _)
RefBins(list, capacity) ==
    IF list = <<>> THEN <<>>
    ELSE RefAdd(RefBins(SubSeq(list, 1, Len(list) - 1), capacity), list[Len(list)], capacity)

\* the directory and the capacity are those of the worked example
IsExample ==
    /\ tool = "split" /\ args.split_size = ExampleCapacity
    /\ DOMAIN files0 = {Join(DirD, PackNames[i]) : i \in 1..Len(PackNames)}
    /\ \A i \in 1..Len(PackNames) : StSize(files0[Join(DirD, PackNames[i])]) = ExampleSizes[i]

\* the names in each bin
BinNames == [i \in 1..Len(batches) |-> [k \in 1..Len(batches[i]) |-> batches[i][k].name]]

\* C15: for every scan order the sorted list is the listing by size descending
\* with ties in scan order; at every point of the packing loop the bins are
\* those the reference procedure builds from the files handled so far, and
\* batch_sizes holds their totals; capacity 10 with a=6, b=5, c=4, d=3 ends
\* with the two bins {a, c} of size 10 and {b, d} of size 8.
C15_FirstFitDecreasing ==
    /\ (tool = "split" /\ pc = "scan") =>
           \A order \in Orders({e \in Children(args.directory) : IsFile(e)}) :
               StableDescending(SortDesc(Listing(order)), Listing(order))
    /\ (tool = "split" /\ pc \in {"pack", "exec", "done"} /\ flist # <<>>) =>
           /\ batches = RefBins(SubSeq(flist, 1, pack_idx - 1), max_size)
           /\ batch_sizes = [i \in 1..Len(batches) |-> SumSizes(batches[i])]
    /\ (IsExample /\ PackDone) =>
           /\ BinNames = << <<PackNames[1], PackNames[3]>>, <<PackNames[2], PackNames[4]>> >>
           /\ batch_sizes = <<10, 8>>

C15_Witness ==
    /\ IsExample /\ PackDone /\ pc = "done"
    /\ Len(batches) = 2 /\ Len(operations) = 4

-----------------------------------------------------------------------------
(* Properties of the name resolution *)

\* the path neither exists on disk nor is in the claim set
FreeName(path) == path \notin DOMAIN files /\ path \notin dirs /\ path \notin claimed_names

\* target_dir / stem_N.ext
Numbered(target_dir, filename, n) ==
    Join(target_dir, Stem(filename) \o <<"_">> \o Str(n) \o Suffix(filename))

\* C16: every call get_unique_name(target_dir, filename) of the planning loop
\* returns target_dir/filename when that path is neither on disk nor claimed,
\* and otherwise target_dir/stem_N.ext for the smallest N >= 1 whose path is
\* neither on disk nor claimed; the call adds exactly the returned path to the
\* claim set, and the path differs from every path returned before.
C16_FirstFreeName ==
    [][ (tool = "consolidate" /\ pc = "plan" /\ operations' # operations) =>
            LET filename == Name(Head(pending))
                plain    == Join(args.target_dir, filename)
                returned == operations'[Len(operations')].dest
                tried    == 1..(Cardinality(claimed_names) + Cardinality(DOMAIN files)
                                    + Cardinality(dirs) + 1)
            IN  /\ Len(operations') = Len(operations) + 1
                /\ FreeName(plain) => returned = plain
                /\ ~FreeName(plain) =>
                       \E n \in tried :
                           /\ returned = Numbered(args.target_dir, filename, n)
                           /\ FreeName(returned)
                           /\ \A m \in 1..(n - 1) :
                                  ~FreeName(Numbered(args.target_dir, filename, m))
                /\ claimed_names' = claimed_names \cup {returned}
                /\ returned \notin claimed_names
                /\ \A j \in 1..Len(operations) : operations[j].dest # returned
                /\ operations'[Len(operations')].renamed = (returned # plain) ]_vars

C16_Witness ==
    /\ tool = "consolidate" /\ pc \in {"plan", "scan"}
    /\ Join(DirT, NameAJ) \in DOMAIN files /\ Join(DirT, NameA1J) \in dirs
    /\ \E i, j, k \in 1..Len(operations) :
           /\ Name(operations[i].src) = NameAJ
           /\ operations[i].dest = Join(DirT, <<"a", "_", "2", ".", "j">>)
           /\ Name(operations[j].src) = NameAJ
           /\ operations[j].dest = Join(DirT, <<"a", "_", "3", ".", "j">>)
           /\ Name(operations[k].src) = NameA1J
           /\ operations[k].dest = Join(DirT, <<"a", "_", "1", "_", "1", ".", "j">>)

-----------------------------------------------------------------------------
(* Properties of the order of the moves *)

\* the sources of the planned operations, in planning order
PlannedSources == [j \in 1..Len(operations) |-> operations[j].src]

\* the moves made so far are the first operations of the plan, in its order,
\* and a running move is the operation after them: one call at a time
OneAtATimeInPlanOrder ==
    /\ Len(log) <= Len(operations)
    /\ \A k \in 1..Len(log) :
           log[k].src = operations[k].src /\ log[k].dest = operations[k].dest
    /\ completed = Cardinality({k \in 1..Len(log) : log[k].ok})
    /\ mv.pc # "idle" =>
           /\ Len(log) = completed /\ completed < Len(operations)
           /\ mv.src = operations[completed + 1].src
           /\ mv.dest = operations[completed + 1].dest

\* the lists of files that scanning the source directories from the i-th on,
\* in argument order, can give
RECURSIVE DiscoveryOrders(_)
DiscoveryOrders(i) ==
    IF i > Len(args.source_dirs) THEN {<<>>}
    ELSE LET here == IF Exists(args.source_dirs[i])
                     THEN get_all_files(args.source_dirs[i]) ELSE {<<>>}
         IN  {h \o t : h \in here, t \in DiscoveryOrders(i + 1)}

\* the plan of consolidate is in discovery order (looked at when planning is
\* over and nothing has been moved yet)
ConsolidatePlanOrder ==
    (tool = "consolidate" /\ pc = "scan" /\ src_idx > Len(args.source_dirs)) =>
        PlannedSources \in DiscoveryOrders(1)

\* the size split recorded for the source of the j-th operation
PlannedSize(j) == StSize(files0[operations[j].src])

\* the bin of the j-th operation of split
BinOf(j) == ToInt(operations[j].dir_name) - start_num

\* C17 as stated: the moves are made one at a time in the order of the plan,
\* which for consolidate is discovery order and for split is the order of the
\* files by size descending.
C17_OrderBySize ==
    (tool \in {"consolidate", "split"}) =>
        /\ OneAtATimeInPlanOrder
        /\ ConsolidatePlanOrder
        /\ SplitPlanned =>
               \A j, k \in 1..Len(operations) : j < k => PlannedSize(j) >= PlannedSize(k)

\* C17 amended: as C17, but the plan of split goes bin by bin in creation
\* order, and inside a bin in the order of the sorted list (size descending).
C17_ExecutionOrder ==
    (tool \in {"consolidate", "split"}) =>
        /\ OneAtATimeInPlanOrder
        /\ ConsolidatePlanOrder
        /\ SplitPlanned =>
               \A j, k \in 1..Len(operations) :
                   j < k =>
                       /\ BinOf(j) <= BinOf(k)
                       /\ BinOf(j) = BinOf(k) =>
                              /\ PosOf(flist, Name(operations[j].src))
                                     < PosOf(flist, Name(operations[k].src))
                              /\ PlannedSize(j) >= PlannedSize(k)

C17_Witness ==
    /\ tool = "split" /\ pc = "done" /\ exit_code = 0
    /\ Len(log) = Len(SplitNames)
    /\ PlannedSize(2) < PlannedSize(3)
    /\ BinOf(2) = 1 /\ BinOf(3) = 2

-----------------------------------------------------------------------------
(* Properties of the states inside a move *)

\* a call of move_file on a source that was there is under way or just over
InMove == mv.pc # "idle" /\ mv.src \in DOMAIN mv.before

\* in the cross-device path src is gone only after copy2 returned, the copy
\* is at dest, and it passed the size comparison and, under verify, the
\* checksum comparison
DeletedOnlyAfterChecks ==
    (InMove /\ mv.via = "copy" /\ mv.src \notin DOMAIN files) =>
        /\ mv.copy_returned
        /\ mv.dest \in DOMAIN files /\ files[mv.dest] = mv.copied
        /\ StSize(mv.copied) = StSize(mv.before[mv.src])
        /\ mv.verify => /\ mv.src_checksum = Sha256(mv.before[mv.src])
                        /\ Sha256(mv.copied) = mv.src_checksum

\* the bytes the source had at the call are at src or at dest
ContentSomewhere ==
    \/ mv.src \in DOMAIN files /\ files[mv.src] = mv.before[mv.src]
    \/ mv.dest \in DOMAIN files /\ files[mv.dest] = mv.before[mv.src]

\* C18 as stated: the source is deleted only after the copy is at dest and has
\* passed the checks, and in every state of a move, ended or not, the original
\* content is intact at src or at dest.
C18_NoLossAtAnyStep ==
    /\ DeletedOnlyAfterChecks
    /\ InMove => ContentSomewhere

\* C18 amended: the source is deleted only after the copy is at dest and has
\* passed the checks; in every state of a move the original content is intact
\* at src or at dest when the move is a rename or verify is set, and otherwise
\* src is intact or dest holds a file of the original size.
C18_NoLoss ==
    /\ DeletedOnlyAfterChecks
    /\ (InMove /\ (mv.via # "copy" \/ mv.verify)) => ContentSomewhere
    /\ InMove =>
           \/ mv.src \in DOMAIN files /\ files[mv.src] = mv.before[mv.src]
           \/ /\ mv.dest \in DOMAIN files
              /\ StSize(files[mv.dest]) = StSize(mv.before[mv.src])

C18_Witness ==
    /\ tool = "consolidate" /\ mv.pc = "unlink" /\ mv.verify
    /\ mv.src \in DOMAIN files /\ mv.dest \in DOMAIN files
    /\ files[mv.dest] = files[mv.src] /\ StSize(files[mv.src]) = MaxSize
    /\ completed >= 1

\* the command line is one the tools reject: a malformed size string, a size
\* of zero bytes, or a target that overlaps a source directory
InvalidArguments ==
    \/ tool = "split" /\ args.split_size \in MalformedSizes \cup ZeroSizes
    \/ tool = "consolidate" /\ TargetOverlaps

\* C19: a run with a malformed size string, a capacity that is not positive,
\* or a target that overlaps a source directory never lists a directory,
\* never creates one, never plans or moves a file, and ends, in a dry run too,
\* with an error status right from its start.
C19_FailFast ==
    InvalidArguments =>
        /\ scanned = {}
        /\ dirs = dirs0 /\ files = files0
        /\ operations = <<>> /\ claimed_names = {} /\ flist = <<>>
        /\ log = <<>> /\ mv.pc = "idle"
        /\ pc \in {"start", "done"}
        /\ pc = "done" => exit_code \in {1, 2}

C19_Witness ==
    /\ tool = "split" /\ pc = "done" /\ exit_code = 1
    /\ args.split_size = <<" ", "0", ".", "5", " ", "b">> /\ ~args.dry_run
    /\ Cardinality(DOMAIN files0) = Len(SplitNames)
    /\ Join(DirD, <<"0", "2">>) \in dirs0

-----------------------------------------------------------------------------
(* Properties of runs whose files change under them *)

\* the finished moves of the run whose source went stale after the scan;
\* those whose source was removed
StaleMoves   == {k \in 1..Len(log) : \E st \in stale : st.path = log[k].src}
RemovedMoves == {k \in 1..Len(log) : \E st \in stale : st.path = log[k].src /\ st.removed}

\* the k-th move failed, was the last of the run, and the run exited with 1
HaltedAt(k) ==
    /\ ~log[k].ok /\ k = Len(log)
    /\ pc = "done" /\ exit_code = 1 /\ reported = k - 1

\* C20 as stated: the move of a file that was removed or rewritten between the
\* scan and the move fails and is the last of the run, which exits with status
\* 1; a stale file is never moved as if it were what the scan saw.
C20_StaleIsError == \A k \in StaleMoves : HaltedAt(k)

\* the part of C20 about removed files: the move of a scanned file that is
\* gone when its turn comes fails, and the run halts with status 1
C20_RemovedIsError == \A k \in RemovedMoves : HaltedAt(k)

C20_RemovedWitness ==
    /\ tool = "consolidate" /\ args.verify /\ RemovedMoves # {} /\ Len(log) >= 2

-----------------------------------------------------------------------------
(* Properties of a dry run and the real run after it *)

\* the real run that follows a dry run has its plan: consolidate left the scan
\* loop (line 181), split built its operations (line 190)
RealPlanned ==
    /\ prior # <<>> /\ ~args.dry_run
    /\ pc \in {"exec", "done"}

\* the moves made so far are the first operations of the dry run, in its order
ExecutedAsPredicted ==
    /\ Len(log) <= Len(prior[1].operations)
    /\ \A k \in 1..Len(log) :
          /\ log[k].src = prior[1].operations[k].src
          /\ log[k].dest = prior[1].operations[k].dest

\* both runs were given the directory entries in the same order: consolidate
\* planned the same files in the same order, split sorted to the same list
SameListingOrder ==
    IF tool = "consolidate"
    THEN PlannedSources = [j \in 1..Len(prior[1].operations) |-> prior[1].operations[j].src]
    ELSE flist = prior[1].flist

\* what a list of operations of split says: which file goes to which directory
Assignment(ops) == {[src |-> ops[j].src, dest |-> ops[j].dest] : j \in 1..Len(ops)}

\* the real run plans what the dry run reported: for consolidate the same
\* (source, destination, renamed) in the same order, for split the same
\* directory for every file; and every move made is one the dry run reported
PlansAsReported ==
    IF tool = "consolidate"
    THEN operations = prior[1].operations /\ ExecutedAsPredicted
    ELSE /\ Assignment(operations) = Assignment(prior[1].operations)
         /\ \A k \in 1..Len(log) :
               [src |-> log[k].src, dest |-> log[k].dest] \in Assignment(prior[1].operations)

\* C21 as stated: for the same filesystem and arguments the ordered list of
\* (source, destination, renamed) a dry run of consolidate reported, and the
\* file-to-directory assignment a dry run of split reported, are those of the
\* operations the real run plans and then executes.
C21_DryRunPredicts == RealPlanned => PlansAsReported

\* the part of C21 that does not depend on the order of iterdir(): when both
\* runs were given the directory entries in the same order, the real run plans
\* what the dry run reported, also when the target directory did not exist
C21_SameListingPredicts ==
    (RealPlanned /\ SameListingOrder) =>
        operations = prior[1].operations /\ ExecutedAsPredicted

C21_SameListingWitness ==
    /\ RealPlanned /\ SameListingOrder
    /\ tool = "consolidate" /\ args.target_dir \notin dirs0
    /\ \E j \in 1..Len(operations) : operations[j].renamed
    /\ pc = "done" /\ exit_code = 0 /\ completed = Len(operations)

-----------------------------------------------------------------------------
(* Properties of the bin directories of split *)

\* the loop of lines 199-204 is about to create the directory of its next
\* operation
AboutToMkdir ==
    /\ tool = "split" /\ pc = "exec" /\ mv.pc = "idle"
    /\ completed < Len(operations)
    /\ Join(args.directory, operations[completed + 1].dir_name) \notin created_dirs

NextBinDir == Join(args.directory, operations[completed + 1].dir_name)

\* a real run of split that planned moves and did not end with "Done!"
SplitHalted ==
    /\ tool = "split" /\ pc = "done" /\ ~args.dry_run
    /\ operations # <<>> /\ exit_code # 0

\* C22: in every run of split the path of a bin directory names nothing, no
\* directory and no regular file, when the run comes to create it, so the
\* creation never fails, and a run that halts does so on a failed move, with
\* the FAILED report, the N/total count and exit status 1.
C22_FreshBinDirs ==
    /\ AboutToMkdir => ~Exists(NextBinDir)
    /\ SplitHalted =>
          /\ exit_code = 1 /\ reported = completed
          /\ log # <<>> /\ ~log[Len(log)].ok

\* the part of C22 about directories: a bin directory is never a directory
\* that was there before the run
C22_NoExistingDirectory ==
    AboutToMkdir => ~IsDir(NextBinDir)

C22_NoExistingDirectoryWitness ==
    /\ AboutToMkdir /\ start_num > 0 /\ completed > 0

-----------------------------------------------------------------------------
(* Properties of the loop of get_unique_name *)

\* the candidates the loop has tested or is testing: target_dir / filename
\* and one per value the counter has had
Tried == resolve.counter

\* the paths of the form filename or stem_N.ext that exist in the target or
\* were claimed when the call was made (N up to the number of names there are)
TakenOfTheForm ==
    {p \in {Join(args.target_dir, args.filename)}
            \cup {Candidate(args.target_dir, args.filename, n) :
                      n \in 1..Cardinality(ResolveNames)} :
        Exists(p) \/ p \in resolve.claimed}

TriesBounded ==
    resolve.pc \in {"while", "returned"} => Tried <= 1 + Cardinality(TakenOfTheForm)

\* the loop and the operator get_unique_name give the same path
ResolveAgrees ==
    resolve.pc = "while" =>
        get_unique_name(args.target_dir, args.filename) =
            IF Taken(resolve.candidate)
            THEN NextFree(args.target_dir, args.filename, resolve.counter)
            ELSE resolve.candidate

\* C23: for every set of entries of the target and every claim set the loop
\* of get_unique_name comes to an end, and the number of candidates it tries
\* is at most one more than the number of existing or claimed paths of the
\* form filename or stem_N.ext.
C23_NameResolutionTerminates ==
    /\ []TriesBounded
    /\ <>(resolve.pc = "returned")

\* a call over, which went past a directory and a claim that is not on disk
\* and tried fewer candidates than the bound allows
C23_Witness ==
    /\ tool = "resolve" /\ resolve.pc = "returned"
    /\ Tried >= 3
    /\ \E p \in TakenOfTheForm : IsDir(p)
    /\ \E p \in TakenOfTheForm : ~Exists(p)
    /\ Tried < 1 + Cardinality(TakenOfTheForm)

====
